---- MODULE Spec2Model ----
(***************************************************************************)
(* sntrack (src/main.py): one process execution runs one of pre, post or   *)
(* plot against the history table and the marker file.  The state that     *)
(* survives between executions is the table, the marker file and the wall  *)
(* clock; everything read from sysfs is an input of the execution.         *)
(***************************************************************************)
EXTENDS Integers, Sequences, FiniteSets, TLC

\* ---------------------------------------------------------------- bounds
MaxRows == 2      \* rows the recorder may insert
MaxClock == 1     \* latest clock reading of the recorder
MaxEnergy == 1    \* largest battery reading
MaxPlotRows == 1  \* rows of the tables plot is run on

\* ------------------------------------------------------- program constants
DURATION_THRESHOLD_S == 300

sleep_actions == <<"suspend", "hibernate", "hybrid-sleep", "suspend-then-hibernate">>

\* ------------------------------------------------------------ SQL / Python
\* None and a present value: NULL columns, Optional results, a missing file.
None == <<>>
Some(v) == <<v>>
Val(o) == o[1]

\* str(cur.lastrowid) and int(f.read()): decimal digits, most significant first.
RECURSIVE str(_)
str(n) == IF n < 10 THEN <<n>> ELSE Append(str(n \div 10), n % 10)

RECURSIVE int(_)
int(s) == IF s = <<>> THEN 0 ELSE 10 * int(SubSeq(s, 1, Len(s) - 1)) + s[Len(s)]

\* Text is a sequence of chunks; str.strip() drops leading and trailing whitespace.
Whitespace == {" ", "\n"}

RECURSIVE lstrip(_)
lstrip(s) == IF s # <<>> /\ Head(s) \in Whitespace THEN lstrip(Tail(s)) ELSE s

RECURSIVE rstrip(_)
rstrip(s) == IF s # <<>> /\ s[Len(s)] \in Whitespace THEN rstrip(SubSeq(s, 1, Len(s) - 1)) ELSE s

strip(s) == rstrip(lstrip(s))

\* ------------------------------------------------------------ sensor reads
\* A sysfs file: readable or not, and its content.
File(c) == [readable |-> TRUE, content |-> c]
NoFile == [readable |-> FALSE, content |-> <<>>]

get_bios_version_empty(f) == IF f.readable THEN Some(strip(f.content)) ELSE Some(<<>>)

\* get_bios_version: the stripped content, None when the read fails (never raises).
get_bios_version(f) == IF f.readable THEN Some(strip(f.content)) ELSE None

\* is_on_ac: ac is "absent" (no AC* entry), "unreadable", or the content "0"/"1".
is_on_ac_raises(ac) == ac = "unreadable"
is_on_ac_battery_default(ac) == ac = "1"
is_on_ac(ac) == IF ac = "absent" THEN TRUE ELSE ac = "1"

\* get_sleep_mode: re.findall(r'\[(.*)\]', out)[0]: leftmost "[" that has a "]"
\* after it on the same line, greedy up to the last such "]".
Brackets(s) == {p \in (1..Len(s)) \X (1..Len(s)) :
                  /\ p[1] < p[2] /\ s[p[1]] = "[" /\ s[p[2]] = "]"
                  /\ \A k \in p[1]..p[2] : s[k] # "\n"}
get_sleep_mode_raises(f) == ~f.readable \/ Brackets(f.content) = {}
get_sleep_mode(f) ==
    LET B == Brackets(f.content)
        i == CHOOSE a \in {p[1] : p \in B} : \A b \in {p[1] : p \in B} : a <= b
        j == CHOOSE a \in {p[2] : p \in {q \in B : q[1] = i}} :
                 \A b \in {p[2] : p \in {q \in B : q[1] = i}} : a >= b
    IN SubSeq(f.content, i + 1, j - 1)

\* get_battery_energy: the first battery's energy_* attribute, else
\* charge_*/1000 * voltage_min_design/1000, else 0; an unreadable attribute raises.
Battery(k, e, c, v) == [kind |-> k, energy |-> e, charge |-> c, voltage |-> v]
get_battery_energy_raises(b) == b.kind = "unreadable"
get_battery_energy(b) ==
    IF b.kind = "energy" THEN b.energy
    ELSE IF b.kind = "charge" THEN (b.charge \div 1000) * (b.voltage \div 1000)
    ELSE 0

\* ------------------------------------------------------------------ inputs
Clock == 0..MaxClock
ACStates == {"absent", "unreadable", "0", "1"}
BiosFiles == {NoFile, File(<<"R1BET66W(1.35", " ", ")", "\n">>)}
SleepFiles == {NoFile, File(<<"s2idle", " ", "deep", "\n">>), File(<<"s2idle", " ", "[", "deep", "]", "\n">>)}
Batteries == {Battery("none", 0, 0, 0), Battery("unreadable", 0, 0, 0)}
             \cup {Battery("energy", e, 0, 0) : e \in 0..MaxEnergy}
             \cup {Battery("charge", 0, 1000 * MaxEnergy, 1000)}
Actions == {sleep_actions[1]}

\* plot: tables and command lines
PlotSleepFiles == {File(<<"s2idle", " ", "[", "deep", "]", "\n">>), File(<<"[", "s2idle", "]", " ", "deep", "\n">>)}
PlotActions == {sleep_actions[1], sleep_actions[2]}
PlotBatteries == {Battery("energy", e, 0, 0) : e \in 0..MaxEnergy}
PlotTimes == {0} \cup {DURATION_THRESHOLD_S + k : k \in -1..1}
BiosFilters == {None, Some(<<>>), Some(<<"R1BET66W(1.35", " ", ")">>)}
ModeFilters == {None, Some(<<>>), Some(<<"deep">>)}
ActionFilters == {None, Some(""), Some(sleep_actions[1])}

\* ------------------------------------------------------------------- state
VARIABLES history,   \* the history table, in rowid order
          tmpfile,   \* the marker file: None, or the digits written to it
          clock,     \* round(time.time())
          last,      \* the latest pre/post execution: what it read and how it ended
          after,     \* per row, the executions seen since it was inserted
          report     \* the latest plot execution

vars == <<history, tmpfile, clock, last, after, report>>

NoExec == [op |-> "none", ac |-> "unread", bios |-> "unread", mode |-> "unread", bat |-> "unread",
           outcome |-> "ok", rows0 |-> 0, tmp0 |-> FALSE]
NoReport == [op |-> "none"]

Init ==
    /\ history = <<>>
    /\ tmpfile = None
    /\ clock = 0
    /\ last = NoExec
    /\ after = <<>>
    /\ report = NoReport

\* how a read ended, for the execution record
FileStatus(f) == IF f.readable THEN "ok" ELSE "unreadable"
ModeStatus(f) == IF ~f.readable THEN "unreadable" ELSE IF Brackets(f.content) = {} THEN "nobracket" ELSE "ok"
Exec(op, ac, bios, mode, bat, outcome) ==
    [op |-> op, ac |-> ac, bios |-> bios, mode |-> mode, bat |-> bat,
     outcome |-> outcome, rows0 |-> Len(history), tmp0 |-> tmpfile # None]

\* time passes between executions
Tick == /\ \E c \in Clock : c > clock /\ clock' = c
        /\ UNCHANGED <<history, tmpfile, last, after, report>>

\* INSERT INTO history (...) VALUES (...); the id is the next rowid
InsertRow(h, bios, mode, action, t, e) ==
    Append(h, [id |-> Len(h) + 1, bios_version |-> bios, sleep_mode |-> Some(mode),
               sleep_action |-> Some(action), t0 |-> Some(t), t1 |-> None,
               e0 |-> Some(e), e1 |-> None])

UpdateRowEndTimeOnly(h, t, e, id) ==
    [i \in DOMAIN h |-> IF h[i].id = id THEN [h[i] EXCEPT !.t1 = Some(t)] ELSE h[i]]

UpdateRowAll(h, t, e, id) ==
    [i \in DOMAIN h |-> [h[i] EXCEPT !.t1 = Some(t), !.e1 = Some(e)]]

\* UPDATE history SET t1 = ?, e1 = ? WHERE id = ?
UpdateRow(h, t, e, id) ==
    [i \in DOMAIN h |-> IF h[i].id = id THEN [h[i] EXCEPT !.t1 = Some(t), !.e1 = Some(e)] ELSE h[i]]

WriteMarkerSkipped(id) == None

\* the marker after pre has written the new id to it
WriteMarker(id) == Some(str(id))

RemoveMarkerKept(m) == m

\* the marker after post has handled it: unlinked
RemoveMarker(m) == None

\* pre, from the insert on: the sensors are read in the order of the VALUES tuple
PreInsert(ac) ==
    \E bf \in BiosFiles, sf \in SleepFiles :
      IF get_sleep_mode_raises(sf) THEN
          /\ last' = Exec("pre", ac, FileStatus(bf), ModeStatus(sf), "unread", "abort")
          /\ UNCHANGED <<history, tmpfile, after>>
      ELSE \E b \in Batteries, action \in Actions :
          IF get_battery_energy_raises(b) THEN
              /\ last' = Exec("pre", ac, FileStatus(bf), ModeStatus(sf), b.kind, "abort")
              /\ UNCHANGED <<history, tmpfile, after>>
          ELSE
              /\ Len(history) < MaxRows
              /\ history' = InsertRow(history, get_bios_version(bf), get_sleep_mode(sf), action,
                                      clock, get_battery_energy(b))
              /\ tmpfile' = WriteMarker(Len(history'))
              /\ last' = Exec("pre", ac, FileStatus(bf), ModeStatus(sf), b.kind, "ok")
              /\ after' = Append(after, [post |-> FALSE, closing |-> FALSE])

\* main() running pre: an uncaught exception ends the process before the commit
Pre ==
    /\ \E ac \in ACStates :
         IF is_on_ac_raises(ac) THEN
             /\ last' = Exec("pre", ac, "unread", "unread", "unread", "abort")
             /\ UNCHANGED <<history, tmpfile, after>>
         ELSE IF is_on_ac(ac) THEN
             /\ last' = Exec("pre", ac, "unread", "unread", "unread", "ok")
             /\ UNCHANGED <<history, tmpfile, after>>
         ELSE PreInsert(ac)
    /\ UNCHANGED <<clock, report>>

\* post, from the marker on
PostUpdate(ac, b) ==
    IF get_battery_energy_raises(b) THEN
        /\ last' = Exec("post", ac, "unread", "unread", b.kind, "abort")
        /\ UNCHANGED <<history, tmpfile>>
    ELSE
        /\ history' = UpdateRow(history, clock, get_battery_energy(b), int(Val(tmpfile)))
        /\ tmpfile' = RemoveMarker(tmpfile)
        /\ last' = Exec("post", ac, "unread", "unread", b.kind, "ok")

\* main() running post
Post ==
    /\ \E ac \in ACStates, b \in Batteries :
         /\ IF is_on_ac_raises(ac) THEN
                /\ last' = Exec("post", ac, "unread", "unread", "unread", "abort")
                /\ UNCHANGED <<history, tmpfile>>
            ELSE IF is_on_ac(ac) \/ tmpfile = None THEN
                /\ last' = Exec("post", ac, "unread", "unread", "unread", "ok")
                /\ UNCHANGED <<history, tmpfile>>
            ELSE PostUpdate(ac, b)
         \* bookkeeping: post, a post has run to completion since the row was
         \* inserted; closing, one of them ran on battery, with a readable
         \* battery, while the row was the newest
         /\ after' = [i \in DOMAIN after |->
                        [post |-> after[i].post \/ last'.outcome = "ok",
                         closing |-> after[i].closing
                                     \/ (i = Len(after) /\ ac = "0" /\ b.kind # "unreadable")]]
    /\ UNCHANGED <<clock, report>>

Next == Tick \/ Pre \/ Post

Spec == Init /\ [][Next]_vars

\* ------------------------------------------------------------------- plot
\* `if args.bios:`: an option that is absent, or given as the empty string, is falsy
Truthy(o) == o # None /\ Len(Val(o)) > 0

Args(short, bios, mode, action) == [short |-> short, bios |-> bios, mode |-> mode, action |-> action]

MismatchInverted(given, field) == Truthy(given) /\ field = given

\* `if args.bios: if row[0] != args.bios: continue`, and the same for mode and action
Mismatch(given, field) == Truthy(given) /\ field # given

TooShortStrict(td_s) == td_s < DURATION_THRESHOLD_S

\* `if td_s <= DURATION_THRESHOLD_S: continue`
TooShort(td_s) == td_s <= DURATION_THRESHOLD_S

NoLossStrict(e0, e1) == e0 - e1 < 0

\* `if ed_w <= 0: continue`, ed_w = (e0 - e1) / 1000000
NoLoss(e0, e1) == e0 - e1 <= 0

\* what one iteration of the loop does with a row
Disposition(row, args) ==
    IF Mismatch(args.bios, row.bios_version) THEN "bios"
    ELSE IF Mismatch(args.mode, row.sleep_mode) THEN "mode"
    ELSE IF Mismatch(args.action, row.sleep_action) THEN "action"
    ELSE IF row.t1 = None THEN "open"
    ELSE LET td_s == Val(row.t1) - Val(row.t0)
         IN IF ~args.short /\ TooShort(td_s) THEN "short"
            ELSE IF NoLoss(Val(row.e0), Val(row.e1)) THEN "energy"
            ELSE IF td_s = 0 THEN "ZeroDivisionError"
            ELSE "rate"

\* the loop over the rows: an exception ends it, the rows behind it are never looked at
RECURSIVE Scan(_, _, _)
Scan(rows, args, raised) ==
    IF rows = <<>> THEN <<>>
    ELSE IF raised THEN <<"unseen">> \o Scan(Tail(rows), args, TRUE)
    ELSE LET d == Disposition(Head(rows), args)
         IN <<d>> \o Scan(Tail(rows), args, d = "ZeroDivisionError")

\* main() running plot: reads the table, writes nothing
Plot ==
    /\ report.op = "none"
    /\ \E short \in BOOLEAN, bios \in BiosFilters, mode \in ModeFilters, action \in ActionFilters :
         LET args == Args(short, bios, mode, action)
             disp == Scan(history, args, FALSE)
             x_durations == {i \in DOMAIN disp : disp[i] = "rate"}
         IN IF \E i \in DOMAIN disp : disp[i] = "ZeroDivisionError" THEN
                report' = [op |-> "plot", args |-> args, disp |-> disp, outcome |-> "ZeroDivisionError"]
            ELSE IF x_durations = {} THEN
                report' = [op |-> "plot", args |-> args, disp |-> disp, outcome |-> "nothing to plot"]
            ELSE \E full \in Batteries :
                report' = [op |-> "plot", args |-> args, disp |-> disp,
                           outcome |-> IF get_battery_energy_raises(full) THEN "abort" ELSE "shown"]
    /\ UNCHANGED <<history, tmpfile, clock, last, after>>

\* tables for plot: every row is one that pre, and then possibly post, writes
RECURSIVE Tables(_)
Tables(n) ==
    IF n = 0 THEN {<<>>}
    ELSE LET T == Tables(n - 1)
             Opened == {InsertRow(h, get_bios_version(bf), get_sleep_mode(sf), action, 0, get_battery_energy(b)) :
                          h \in {g \in T : Len(g) = n - 1}, bf \in BiosFiles, sf \in PlotSleepFiles,
                          action \in PlotActions, b \in PlotBatteries}
             Closed == {UpdateRow(h, t, get_battery_energy(b), Len(h)) :
                          h \in Opened, t \in PlotTimes, b \in PlotBatteries}
         IN T \cup Opened \cup Closed

InitPlot ==
    /\ history \in Tables(MaxPlotRows)
    /\ tmpfile = None
    /\ clock = 0
    /\ last = NoExec
    /\ after = [i \in DOMAIN history |-> [post |-> FALSE, closing |-> FALSE]]
    /\ report = NoReport

NextPlot == Plot

SpecPlot == InitPlot /\ [][NextPlot]_vars

\* ------------------------------------------------------------- properties
Rows == DOMAIN history
Closed(r) == r.t1 # None /\ r.e1 # None
Open(r) == r.t1 = None /\ r.e1 = None
EndChanged(i) == history'[i].t1 # history[i].t1 \/ history'[i].e1 # history[i].e1
Newest == history[Len(history)]

\* C1: in every row the end timestamp and the end energy are both NULL or both
\* set; once set they are never written again; and a step that writes them
\* starts with the marker file present and naming that row.
C1_EndFieldsOnce ==
    [][ /\ \A i \in DOMAIN history' : Open(history'[i]) \/ Closed(history'[i])
        /\ \A i \in Rows : Closed(history[i]) => ~EndChanged(i)
        /\ \A i \in Rows : EndChanged(i) => /\ tmpfile = Some(str(i))
                                            /\ last'.op = "post"
                                            /\ tmpfile' = None ]_vars

\* a battery post found no marker after row 1 had been closed
C1_Witness ==
    /\ Len(history) >= 1 /\ Closed(history[1])
    /\ last.op = "post" /\ last.ac = "0" /\ last.outcome = "ok" /\ ~last.tmp0
    /\ Val(history[1].t1) < clock

\* the step is a post on battery that follows a pre on battery which found no marker
BatteryPair ==
    /\ last.op = "pre" /\ last.ac = "0" /\ ~last.tmp0 /\ last.outcome = "ok"
    /\ last'.op = "post" /\ last'.ac = "0" /\ last'.outcome = "ok"

C3_AsClaimed == \A i \in Rows : after[i].post => Closed(history[i])

\* C3: a row is finalized by the first post after its pre that runs on battery
\* with a readable battery while the row is still the newest one, and by no
\* other: a post on AC power leaves it open, and so does every post once a
\* later pre has inserted another row.
C3_FinalizedByBatteryPost == \A i \in Rows : Closed(history[i]) <=> after[i].closing

\* row 1 has seen a post and stays open, row 2 was closed by one
C3_Witness ==
    /\ Len(history) = 2
    /\ after[1].post /\ Open(history[1])
    /\ after[2].closing /\ Closed(history[2])

\* C4: a pre that finds the system on AC power, or finds no AC power supply,
\* leaves the table and the marker file as they were.
C4_PreOnAcNoOp ==
    [][ (last'.op = "pre" /\ last'.ac \in {"1", "absent"}) => UNCHANGED <<history, tmpfile>> ]_vars

\* a pre found no AC power supply while a session was open
C4_Witness ==
    /\ last.op = "pre" /\ last.ac = "absent" /\ last.outcome = "ok"
    /\ last.tmp0 /\ tmpfile # None /\ Len(history) = 1 /\ last.rows0 = 1

C6_AsClaimed == last.outcome # "abort"

\* C6: an unreadable BIOS file gives a NULL BIOS version, a missing battery
\* attribute gives energy 0, a missing AC power supply counts as on AC, and none
\* of these aborts; an unreadable AC online file, an unreadable sleep-mode file
\* or one without a bracketed entry, and an unreadable battery attribute abort
\* the pre or post that reads them, which then leaves table and marker as they were.
C6_ReadFailures ==
    [][ /\ last'.outcome = "abort" <=>
              \/ last'.ac = "unreadable"
              \/ last'.mode \in {"unreadable", "nobracket"}
              \/ last'.bat = "unreadable"
        /\ last'.outcome = "abort" => UNCHANGED <<history, tmpfile>>
        /\ Len(history') > Len(history) =>
              LET r == history'[Len(history')]
              IN /\ last'.bios = "unreadable" => r.bios_version = None
                 /\ last'.bios = "ok" => r.bios_version # None
                 /\ last'.bat = "none" => r.e0 = Some(0)
        /\ \A i \in Rows : (EndChanged(i) /\ last'.bat = "none") => history'[i].e1 = Some(0) ]_vars

\* a pre ran to completion with an unreadable BIOS file and no battery attribute
C6_Witness ==
    /\ last.op = "pre" /\ last.outcome = "ok" /\ last.bios = "unreadable" /\ last.bat = "none"
    /\ Len(history) = last.rows0 + 1
    /\ Newest.bios_version = None /\ Newest.e0 = Some(0)

\* ---------------------------------------------------- properties of plot
Plotted == report.op = "plot"
Duration(r) == Val(r.t1) - Val(r.t0)
EnergyDelta(r) == Val(r.e0) - Val(r.e1)
\* the row passes the loop's `continue` tests and its rate is computed
Reported(i) == report.disp[i] = "rate"
\* the row got as far as the duration test
DurationTested(i) == report.disp[i] \in {"short", "energy", "rate", "ZeroDivisionError"}

\* C7 as claimed: without --short the duration test drops a session exactly
\* when it lasted less than 300 s; with --short it drops none.
C7_AsClaimed ==
    Plotted => \A i \in Rows :
        DurationTested(i) =>
            (report.disp[i] = "short" <=> (~report.args.short /\ Duration(history[i]) < 300))

\* C7: without --short the duration test drops a session exactly when it
\* lasted 300 s or less (a session of exactly 300 s is dropped); with --short
\* it drops none.
C7_DurationThreshold ==
    Plotted => \A i \in Rows :
        DurationTested(i) =>
            (report.disp[i] = "short" <=> (~report.args.short /\ Duration(history[i]) <= 300))

\* a session of exactly 300 s was dropped by a plot without --short
C7_Witness ==
    /\ Plotted /\ ~report.args.short
    /\ \E i \in Rows : Closed(history[i]) /\ Duration(history[i]) = 300 /\ report.disp[i] = "short"

\* C8: no reported session has a non-positive energy delta, and none is
\* unterminated, whatever its duration, the --short flag and the filters.
C8_NoLossNeverReported ==
    Plotted => \A i \in Rows :
        Reported(i) => (history[i].t1 # None /\ EnergyDelta(history[i]) > 0)

\* a long enough session that lost no energy was dropped by the energy test
C8_Witness ==
    /\ Plotted
    /\ \E i \in Rows : /\ Closed(history[i]) /\ Duration(history[i]) > 300
                       /\ EnergyDelta(history[i]) = 0 /\ report.disp[i] = "energy"

\* C9 as claimed: whenever --bios, --mode or --action is given, every reported
\* session has that field equal to the given value.
C9_AsClaimed ==
    Plotted => \A i \in Rows :
        Reported(i) =>
            /\ report.args.bios # None => history[i].bios_version = report.args.bios
            /\ report.args.mode # None => history[i].sleep_mode = report.args.mode
            /\ report.args.action # None => history[i].sleep_action = report.args.action

\* C9: whenever --bios, --mode or --action is given with a non-empty value,
\* every reported session has that field equal to the given value; a filter
\* given as the empty string is not applied.
C9_FiltersMatch ==
    Plotted => \A i \in Rows :
        Reported(i) =>
            /\ (report.args.bios # None /\ Val(report.args.bios) # <<>>) =>
                   history[i].bios_version = report.args.bios
            /\ (report.args.mode # None /\ Val(report.args.mode) # <<>>) =>
                   history[i].sleep_mode = report.args.mode
            /\ (report.args.action # None /\ Val(report.args.action) # "") =>
                   history[i].sleep_action = report.args.action

\* all three filters were given and a session was reported
C9_Witness ==
    /\ Plotted
    /\ Truthy(report.args.bios) /\ Truthy(report.args.mode) /\ Truthy(report.args.action)
    /\ \E i \in Rows : Reported(i)

\* C10 as claimed: every session whose rate is computed has a strictly
\* positive duration, so plot never divides by zero.
C10_AsClaimed ==
    Plotted => /\ report.outcome # "ZeroDivisionError"
               /\ \A i \in Rows : report.disp[i] \in {"rate", "ZeroDivisionError"} =>
                                      Duration(history[i]) > 0
====
